---- MODULE Spec2Model ----
(***************************************************************************)
(* serve-dir: a static file server (src/src/main.rs).                      *)
(*                                                                         *)
(* main() builds the shared configuration from the command line, then     *)
(* every request is handled by request_handler in its own task.           *)
(*                                                                         *)
(* Strings are modelled as sequences of chunks: every literal the program  *)
(* tests for ("--header=", ":", "/", ".") is one chunk, so starts_with,    *)
(* find, split_at, slicing and concatenation are the sequence operations.  *)
(***************************************************************************)
EXTENDS Integers, Sequences, FiniteSets, TLC

VARIABLES
    main_pc,              \* position of main: "dir", "loop", "serving", "panicked"
    argv,                 \* std::env::args().skip(1), the part not yet consumed
    directory_path,       \* main's local
    headers,              \* main's local Vec<(String, String)>
    no_default_headers,   \* main's local
    not_found_file_path,  \* main's local Option<String>
    shared_data,          \* the Arc<SharedData> every handler receives
    fs,                   \* the filesystem: path -> entry
    env_steps,            \* changes the environment made to the filesystem
    handlers              \* one record per request_handler invocation (task)

vars == <<main_pc, argv, directory_path, headers, no_default_headers,
          not_found_file_path, shared_data, fs, env_steps, handlers>>

(***************************************************************************)
(* Bounds                                                                  *)
(***************************************************************************)
MaxArgs == 2        \* command-line options after the directory
MaxEnvSteps == 1    \* filesystem changes made by the environment

Tasks == {"t1", "t2"}   \* concurrently running handler invocations

(***************************************************************************)
(* Option<T>                                                               *)
(***************************************************************************)
None == <<>>
Some(v) == <<v>>
IsSome(o) == Len(o) = 1
Unwrap(o) == o[1]

(***************************************************************************)
(* String helpers                                                          *)
(***************************************************************************)
StartsWith(s, chunk) == Len(s) >= 1 /\ s[1] = chunk
EndsWith(s, chunk) == Len(s) >= 1 /\ s[Len(s)] = chunk
Skip(s, n) == SubSeq(s, n + 1, Len(s))

\* str::find(':'): Some(offset of the first ":" chunk, 0-based) or None
Find(s, chunk) ==
    IF \E i \in 1..Len(s) : s[i] = chunk
    THEN Some((CHOOSE i \in 1..Len(s) :
                  s[i] = chunk /\ \A j \in 1..(i - 1) : s[j] # chunk) - 1)
    ELSE None

\* str::split_at(mid), mid a 0-based offset: ( s[..mid], s[mid..] )
SplitAt(s, mid) == <<SubSeq(s, 1, mid), SubSeq(s, mid + 1, Len(s))>>

(***************************************************************************)
(* Update<(String, String)> for Vec<(String, String)>                      *)
(***************************************************************************)
Position(vec, key) ==
    IF \E i \in 1..Len(vec) : vec[i][1] = key
    THEN CHOOSE i \in 1..Len(vec) : vec[i][1] = key /\ \A j \in 1..(i - 1) : vec[j][1] # key
    ELSE 0

Update(vec, value) ==
    LET index == Position(vec, value[1])
    IN  IF index # 0
        THEN [vec EXCEPT ![index] = <<vec[index][1], value[2]>>]
        ELSE Append(vec, value)

(***************************************************************************)
(* Command lines                                                           *)
(***************************************************************************)
ACAO == <<"access-control-allow-origin">>

Dirs == { <<"www">>, <<"www", "/">> }

OptionArgs == {
    <<"--header=", "x-a", ":", "1">>,
    <<"-H=", "x-a", ":", "2">>,
    <<"--header=", "access-control-allow-origin", ":", "https://u">>,
    <<"--header=", "x", " ", "y", ":", "1">>,
    <<"--header=", "x-a">>,
    <<"--no-default-headers">>,
    <<"--404=", "nf.html">> }

RECURSIVE SeqsUpTo(_, _)
SeqsUpTo(S, n) ==
    IF n = 0 THEN { <<>> }
    ELSE LET shorter == SeqsUpTo(S, n - 1)
         IN  shorter \cup { Append(s, x) : s \in shorter, x \in S }

CommandLines == { <<d>> \o opts : d \in Dirs, opts \in SeqsUpTo(OptionArgs, MaxArgs) }

(***************************************************************************)
(* Filesystem                                                              *)
(***************************************************************************)
Absent == [kind |-> "absent", readable |-> FALSE, bytes |-> ""]
Dir == [kind |-> "dir", readable |-> TRUE, bytes |-> ""]
File(bytes) == [kind |-> "file", readable |-> TRUE, bytes |-> bytes]
Unreadable(bytes) == [kind |-> "file", readable |-> FALSE, bytes |-> bytes]

P_index == <<"www", "/", "index.html">>
P_a == <<"www", "/", "a">>
P_hidden == <<"www", "/", ".", "a">>
P_nf == <<"nf.html">>
Paths == { P_index, P_a, P_hidden, P_nf }

InitialFs == {
    (P_index :> File("<index>")) @@ (P_a :> File("<a>"))
        @@ (P_hidden :> File("<secret>")) @@ (P_nf :> File("<nf>")),
    (P_index :> Absent) @@ (P_a :> Unreadable("<a>"))
        @@ (P_hidden :> File("<secret>")) @@ (P_nf :> Dir) }

Lookup(f, path) == IF path \in DOMAIN f THEN f[path] ELSE Absent

\* Path::is_file
IsFile(f, path) == Lookup(f, path).kind = "file"

\* tokio::fs::read: Ok(bytes) or Err(error)
Ok(v) == [ok |-> TRUE, val |-> v]
Err(e) == [ok |-> FALSE, val |-> e]
FsRead(f, path) ==
    LET e == Lookup(f, path)
    IN  IF e.kind = "absent" THEN Err("No such file or directory (os error 2)")
        ELSE IF e.kind = "dir" THEN Err("Is a directory (os error 21)")
        ELSE IF ~e.readable THEN Err("Permission denied (os error 13)")
        ELSE Ok(e.bytes)

(***************************************************************************)
(* Requests, responses, log lines                                          *)
(***************************************************************************)
Uri(path, query) == [path |-> path, query |-> query]
Request(method, uri) == [method |-> method, uri |-> uri]

\* An authority-form target ("host:80") has no path: Uri::path() is "".
Requests == {
    Request("GET", Uri(<<>>, "")),
    Request("GET", Uri(<<"/">>, "")),
    Request("GET", Uri(<<"/", "index.html">>, "")),
    Request("GET", Uri(<<"/", "a">>, "")),
    Request("GET", Uri(<<"/", "a">>, "?v=1")),
    Request("GET", Uri(<<"/", ".", "a">>, "")),
    Request("GET", Uri(<<"/", "m">>, "")),
    Request("OPTIONS", Uri(<<"/", "a">>, "")),
    Request("POST", Uri(<<"/", "a">>, "")) }

INDEX_HTML == <<"index.html">>
INVALID_PATH == "Invalid Path"
SOMETHING_WENT_WRONG == "Something Went Wrong :("
NOT_FOUND == "404 Not Found"
CONTENT_TYPE == <<"content-type">>

LogLine(status, method, uri, reason) ==
    [status |-> status, method |-> method, uri |-> uri, reason |-> reason]

(***************************************************************************)
(* http::response::Builder, as request_handler uses it                     *)
(***************************************************************************)
ValidHeaderName(key) == key # <<>> /\ \A i \in 1..Len(key) : key[i] \notin {" ", "\n"}
ValidHeaderValue(value) == \A i \in 1..Len(value) : value[i] # "\n"

NewBuilder == [headers |-> <<>>, status |-> 200, err |-> FALSE]

\* Builder::header: appends the pair, or keeps the first error
BuilderHeader(b, key, value) ==
    IF b.err \/ ~ValidHeaderName(key) \/ ~ValidHeaderValue(value)
    THEN [b EXCEPT !.err = TRUE]
    ELSE [b EXCEPT !.headers = Append(@, <<key, value>>)]

BuilderStatus(b, status) == IF b.err THEN b ELSE [b EXCEPT !.status = status]

\* Builder::body: Ok(response) or Err
BuilderBody(b, body) ==
    IF b.err THEN Err("http::Error")
    ELSE Ok([status |-> b.status, headers |-> b.headers, body |-> body])

\* lines 144-147: every configured header, in the list's order
RECURSIVE ApplyHeaders(_, _)
ApplyHeaders(b, hs) ==
    IF hs = <<>> THEN b
    ELSE ApplyHeaders(BuilderHeader(b, Head(hs)[1], Head(hs)[2]), Tail(hs))

(***************************************************************************)
(* request_handler: one invocation's local state                           *)
(***************************************************************************)
Idle == [pc |-> "idle", req |-> <<>>, builder |-> NewBuilder, file_path |-> <<>>,
         resp |-> None, log |-> <<>>, fs_ops |-> <<>>]

FsOp(op, path) == [op |-> op, path |-> path]

\* return Ok(builder.body(..).unwrap()): the response, or a panic on Err
Return(h, built) ==
    IF built.ok
    THEN [h EXCEPT !.pc = "done", !.resp = Some(built.val),
                   !.builder = NewBuilder, !.file_path = <<>>]
    ELSE [h EXCEPT !.pc = "panicked", !.builder = NewBuilder, !.file_path = <<>>]

Println(h, line) == [h EXCEPT !.log = Append(@, line)]

\* RelativePath without the index.html substitution
RelativePath_NoIndex(path) ==
    LET uri_path == Skip(path, 1)
    IN  IF StartsWith(uri_path, ".") THEN None ELSE Some(uri_path)

\* RelativePath without the leading-'.' guard
RelativePath_NoGuard(path) ==
    LET uri_path == Skip(path, 1)
    IN  IF uri_path = <<>> THEN Some(INDEX_HTML) ELSE Some(uri_path)

\* lines 154-165: the relative path of a GET, None when it starts with '.'
RelativePath(path) ==
    LET uri_path == Skip(path, 1)
    IN  IF uri_path = <<>> THEN Some(INDEX_HTML)
        ELSE IF StartsWith(uri_path, ".") THEN None
        ELSE Some(uri_path)

\* lines 166-168 and 182: the candidate file, and whether to read it
Candidate(h, data, f, uri_path) ==
    LET file_path == data.directory_path \o uri_path
        checked == [h EXCEPT !.fs_ops = Append(@, FsOp("is_file", file_path))]
    IN  IF IsFile(f, file_path)
        THEN [checked EXCEPT !.pc = "read", !.file_path = file_path]
        ELSE [checked EXCEPT !.pc = "not_found"]

\* lines 153-165
MethodGet(h, data, f) ==
    LET uri == h.req.uri
    IN  IF uri.path = <<>>
        THEN [h EXCEPT !.pc = "panicked", !.builder = NewBuilder]   \* &""[1..]
        ELSE LET uri_path == RelativePath(uri.path)
             IN  IF uri_path = None
                 THEN Return(Println(h, LogLine(403, "GET", uri, "requested invalid path")),
                             BuilderBody(BuilderStatus(h.builder, 403), INVALID_PATH))
                 ELSE Candidate(h, data, f, Unwrap(uri_path))

\* lines 184-187
MethodOptions(h) ==
    Return(Println(h, LogLine(200, "OPTIONS", h.req.uri, "")),
           BuilderBody(h.builder, ""))

\* lines 144-189: up to the first await, or the return before it
Start(req, data, f) ==
    LET h == [Idle EXCEPT !.req = req, !.builder = ApplyHeaders(NewBuilder, data.headers)]
    IN  IF req.method = "GET" THEN MethodGet(h, data, f)
        ELSE IF req.method = "OPTIONS" THEN MethodOptions(h)
        ELSE [h EXCEPT !.pc = "not_found"]

\* ReadFile treating a failed read as a miss
ReadFile_FallsToNotFound(h, f) ==
    LET read == FsRead(f, h.file_path)
        h1 == [h EXCEPT !.fs_ops = Append(@, FsOp("read", h.file_path))]
    IN  IF read.ok
        THEN Return(Println(h1, LogLine(200, "GET", h.req.uri, "requested file path")),
                    BuilderBody(h1.builder, read.val))
        ELSE [h1 EXCEPT !.pc = "not_found", !.file_path = <<>>]

\* lines 169-181: the read of the candidate file and its two outcomes
ReadFile(h, f) ==
    LET read == FsRead(f, h.file_path)
        h1 == [h EXCEPT !.fs_ops = Append(@, FsOp("read", h.file_path))]
    IN  IF read.ok
        THEN Return(Println(h1, LogLine(200, "GET", h.req.uri, "requested file path")),
                    BuilderBody(h1.builder, read.val))
        ELSE Return(Println(h1, LogLine(500, "GET", h.req.uri, read.val)),
                    BuilderBody(BuilderStatus(h1.builder, 500), SOMETHING_WENT_WRONG))

\* not_found_body never reading the fallback file
NotFoundBody_Literal(path, f) == <<NOT_FOUND, FALSE, <<>>>>

\* lines 209-217: <<body, is_from_file, filesystem reads made>>
NotFoundBody(path, f) ==
    IF IsSome(path)
    THEN LET read == FsRead(f, Unwrap(path))
         IN  IF read.ok THEN <<read.val, TRUE, <<FsOp("read", Unwrap(path))>>>>
             ELSE <<NOT_FOUND, FALSE, <<FsOp("read", Unwrap(path))>>>>
    ELSE <<NOT_FOUND, FALSE, <<>>>>

\* lines 196-200
NotFoundContentType(is_from_file) ==
    IF is_from_file THEN <<"text/html">> ELSE <<"plain/text">>

\* line 205: the log line of the not-found resolution
NotFoundLogLine(req) == LogLine(404, "GET", req.uri, "requested address not found")

\* The not-found resolution building its response from a fresh builder
NotFound_FreshBuilder(h, data, f) ==
    LET nf == NotFoundBody(data.not_found_file_path, f)
        h1 == [h EXCEPT !.fs_ops = @ \o nf[3]]
        built == BuilderBody(
                    BuilderStatus(
                        BuilderHeader(NewBuilder, CONTENT_TYPE, NotFoundContentType(nf[2])),
                        404),
                    nf[1])
    IN  Return(Println(h1, NotFoundLogLine(h.req)), built)

\* lines 191-206: the not-found resolution
NotFound(h, data, f) ==
    LET nf == NotFoundBody(data.not_found_file_path, f)
        h1 == [h EXCEPT !.fs_ops = @ \o nf[3]]
        built == BuilderBody(
                    BuilderStatus(
                        BuilderHeader(h1.builder, CONTENT_TYPE, NotFoundContentType(nf[2])),
                        404),
                    nf[1])
    IN  IF built.ok
        THEN Return(Println(h1, NotFoundLogLine(h.req)), built)
        ELSE Return(h1, built)       \* unwrap() panics before the println

(***************************************************************************)
(* main                                                                    *)
(***************************************************************************)
NoData == [headers |-> <<>>, directory_path |-> <<>>, not_found_file_path |-> None]

DEFAULT_HEADER == <<ACAO, <<"*">>>>

\* lines 113-118: the default header joins the list unless opted out
WithDefaultHeaders(hs, opt_out) ==
    IF ~opt_out THEN Append(hs, DEFAULT_HEADER) ELSE hs

\* lines 101-108: the (key, value) pair of a header option, None when it has no ':'
ParseHeader(header_str) ==
    LET at == Find(header_str, ":")
    IN  IF IsSome(at) THEN Some(SplitAt(header_str, Unwrap(at))) ELSE None

IsHeaderArg(arg) == StartsWith(arg, "--header=") \/ StartsWith(arg, "-H=")

Init ==
    /\ main_pc = "dir"
    /\ argv \in CommandLines
    /\ directory_path = <<>>
    /\ headers = <<>>
    /\ no_default_headers = FALSE
    /\ not_found_file_path = None
    /\ shared_data = NoData
    /\ fs \in InitialFs
    /\ env_steps = 0
    /\ handlers = [t \in Tasks |-> Idle]

\* lines 40-51: the directory argument, normalised to end with a separator
MainDirectory ==
    /\ main_pc = "dir"
    /\ LET arg == Head(argv)
       IN  directory_path' =
              IF ~EndsWith(arg, "/") /\ ~EndsWith(arg, "\\") THEN Append(arg, "/") ELSE arg
    /\ argv' = Tail(argv)
    /\ main_pc' = "loop"
    /\ UNCHANGED <<headers, no_default_headers, not_found_file_path, shared_data,
                   fs, env_steps, handlers>>

\* lines 61-112: one iteration of the option loop
MainArg ==
    /\ main_pc = "loop"
    /\ argv # <<>>
    /\ LET arg == Head(argv)
           parsed == ParseHeader(Skip(arg, 1))
       IN  /\ not_found_file_path' =
                 IF not_found_file_path = None /\ StartsWith(arg, "--404=")
                 THEN Some(Skip(arg, 1))
                 ELSE not_found_file_path
           /\ IF IsHeaderArg(arg)
              THEN IF IsSome(parsed)
                   THEN /\ headers' = Update(headers, Unwrap(parsed))
                        /\ main_pc' = "loop"
                   ELSE /\ headers' = headers      \* expect("Invalid Header")
                        /\ main_pc' = "panicked"
              ELSE /\ headers' = headers
                   /\ main_pc' = "loop"
           /\ no_default_headers' =
                 IF ~IsHeaderArg(arg) /\ arg = <<"--no-default-headers">>
                 THEN TRUE
                 ELSE no_default_headers
    /\ argv' = Tail(argv)
    /\ UNCHANGED <<directory_path, shared_data, fs, env_steps, handlers>>

\* lines 113-127: the default header, then the configuration is shared
MainServe ==
    /\ main_pc = "loop"
    /\ argv = <<>>
    /\ shared_data' = [headers |-> WithDefaultHeaders(headers, no_default_headers),
                       directory_path |-> directory_path,
                       not_found_file_path |-> not_found_file_path]
    /\ main_pc' = "serving"
    /\ headers' = <<>>
    /\ directory_path' = <<>>
    /\ not_found_file_path' = None
    /\ UNCHANGED <<argv, no_default_headers, fs, env_steps, handlers>>

(***************************************************************************)
(* The server: one task per request, sharing shared_data                   *)
(***************************************************************************)
mainVars == <<main_pc, argv, directory_path, headers, no_default_headers,
              not_found_file_path, shared_data>>

\* lines 128-131: the service calls request_handler(req, data.clone())
HandlerStart(t) ==
    /\ main_pc = "serving"
    /\ handlers[t].pc = "idle"
    /\ \E req \in Requests :
          handlers' = [handlers EXCEPT ![t] = Start(req, shared_data, fs)]
    /\ UNCHANGED <<mainVars, fs, env_steps>>

\* HandlerReadFile with the path to read kept in a buffer all tasks share
HandlerReadFile_SharedPath(t) ==
    /\ handlers[t].pc = "read"
    /\ \E u \in Tasks :
          /\ handlers[u].pc = "read"
          /\ handlers' = [handlers EXCEPT
                ![t] = ReadFile([handlers[t] EXCEPT !.file_path = handlers[u].file_path], fs)]
    /\ UNCHANGED <<mainVars, fs, env_steps>>

\* lines 169-181, as a step of task t
HandlerReadFile(t) ==
    /\ handlers[t].pc = "read"
    /\ handlers' = [handlers EXCEPT ![t] = ReadFile(handlers[t], fs)]
    /\ UNCHANGED <<mainVars, fs, env_steps>>

\* lines 191-206, as a step of task t
HandlerNotFound(t) ==
    /\ handlers[t].pc = "not_found"
    /\ handlers' = [handlers EXCEPT ![t] = NotFound(handlers[t], shared_data, fs)]
    /\ UNCHANGED <<mainVars, fs, env_steps>>

\* The runtime takes the response (or the task's panic); the task ends.
HandlerEnd(t) ==
    /\ handlers[t].pc \in {"done", "panicked"}
    /\ handlers' = [handlers EXCEPT ![t] = Idle]
    /\ UNCHANGED <<mainVars, fs, env_steps>>

(***************************************************************************)
(* The environment: other processes change the served files                *)
(***************************************************************************)
EnvRemove(path) ==
    /\ main_pc = "serving"
    /\ env_steps < MaxEnvSteps
    /\ fs[path].kind = "file"
    /\ fs' = [fs EXCEPT ![path] = Absent]
    /\ env_steps' = env_steps + 1
    /\ UNCHANGED <<mainVars, handlers>>

EnvChmod(path) ==
    /\ main_pc = "serving"
    /\ env_steps < MaxEnvSteps
    /\ fs[path].kind = "file"
    /\ fs' = [fs EXCEPT ![path].readable = ~@]
    /\ env_steps' = env_steps + 1
    /\ UNCHANGED <<mainVars, handlers>>

Main == MainDirectory \/ MainArg \/ MainServe

Handler(t) == HandlerStart(t) \/ HandlerReadFile(t) \/ HandlerNotFound(t) \/ HandlerEnd(t)

Env == \E path \in Paths : EnvRemove(path) \/ EnvChmod(path)

Next ==
    \/ Main
    \/ \E t \in Tasks : Handler(t)
    \/ Env

Spec == Init /\ [][Next]_vars

\* The same server over a filesystem nobody changes
NextStatic ==
    \/ Main
    \/ \E t \in Tasks : Handler(t)

SpecStatic == Init /\ [][NextStatic]_vars

(***************************************************************************)
(* Properties                                                              *)
(***************************************************************************)
Done(t) == handlers[t].pc = "done"
Resp(t) == Unwrap(handlers[t].resp)
Moved(t) == handlers'[t] # handlers[t]

IsPrefix(p, s) == Len(p) <= Len(s) /\ SubSeq(s, 1, Len(p)) = p

HeaderValues(resp, name) ==
    { resp.headers[i][2] : i \in { j \in 1..Len(resp.headers) : resp.headers[j][1] = name } }

UniqueNames(hs) == \A i, j \in 1..Len(hs) : hs[i][1] = hs[j][1] => i = j

\* The relative segment of a GET, as the specification words it
Segment(path) == IF Tail(path) = <<>> THEN <<"index.html">> ELSE Tail(path)
DotSegment(req) ==
    req.method = "GET" /\ Len(req.uri.path) >= 2 /\ req.uri.path[2] = "."
Readable(f, path) == Lookup(f, path).kind = "file" /\ Lookup(f, path).readable

\* C1: every response the handler returns, whatever its status, starts with the
\* configured (name, value) pairs, in the configured order; what the branch adds
\* afterwards comes after them.
C1_ConfiguredHeadersOnEveryResponse ==
    \A t \in Tasks :
        Done(t) => IsPrefix(shared_data.headers, Resp(t).headers)

C1_Witness ==
    /\ Len(shared_data.headers) >= 2
    /\ Done("t1") /\ Resp("t1").status = 404
    /\ Len(Resp("t1").headers) > Len(shared_data.headers)
    /\ Done("t2") /\ Resp("t2").status = 500

\* C2: over a filesystem nobody changes, a GET whose relative segment (index.html
\* for "/") does not start with '.' and names a readable regular file under the
\* document root is answered 200 with exactly that file's bytes; so GET / and
\* GET /index.html are answered alike.
C2_GetServesFileBytes ==
    /\ \A t \in Tasks :
          LET req == handlers[t].req
          IN  (/\ Done(t)
               /\ req.method = "GET"
               /\ req.uri.path # <<>>
               /\ ~DotSegment(req)
               /\ Readable(fs, shared_data.directory_path \o Segment(req.uri.path)))
              => /\ Resp(t).status = 200
                 /\ Resp(t).body =
                       fs[shared_data.directory_path \o Segment(req.uri.path)].bytes
    /\ \A t, u \in Tasks :
          (/\ Done(t) /\ handlers[t].req = Request("GET", Uri(<<"/">>, ""))
           /\ Done(u) /\ handlers[u].req = Request("GET", Uri(<<"/", "index.html">>, ""))
           /\ Readable(fs, shared_data.directory_path \o <<"index.html">>))
          => Resp(t) = Resp(u)

C2_Witness ==
    /\ Done("t1") /\ handlers["t1"].req = Request("GET", Uri(<<"/">>, ""))
    /\ Resp("t1").status = 200 /\ Resp("t1").body = "<index>"
    /\ Done("t2") /\ handlers["t2"].req = Request("GET", Uri(<<"/", "a">>, "?v=1"))
    /\ Resp("t2").status = 200 /\ Resp("t2").body = "<a>"

\* C3: a GET whose relative segment starts with '.' touches the filesystem at no
\* point of its handling, and the response it gets is 403 "Invalid Path".
C3_DotPathForbiddenWithoutIo ==
    \A t \in Tasks :
        (handlers[t].pc # "idle" /\ DotSegment(handlers[t].req))
        => /\ handlers[t].fs_ops = <<>>
           /\ handlers[t].pc \in {"done", "panicked"}
           /\ Done(t) => Resp(t).status = 403 /\ Resp(t).body = "Invalid Path"

C3_Witness ==
    /\ Done("t1") /\ DotSegment(handlers["t1"].req)
    /\ Resp("t1").status = 403
    /\ Readable(fs, P_hidden)

\* C4: without a fallback file, a 404 response has the body "404 Not Found" and
\* the Content-Type text/plain.
C4_LiteralNotFound ==
    \A t \in Tasks :
        (Done(t) /\ Resp(t).status = 404 /\ shared_data.not_found_file_path = None)
        => /\ Resp(t).body = "404 Not Found"
           /\ HeaderValues(Resp(t), <<"content-type">>) = { <<"text/plain">> }

\* C5: with a fallback file configured, the not-found resolution answers 404: the
\* fallback file's bytes as text/html when its read succeeds, the literal body
\* when the read fails; never a 500.
C5_FallbackNotFound ==
    [][\A t \in Tasks :
          (/\ handlers[t].pc = "not_found"
           /\ Moved(t)
           /\ IsSome(shared_data.not_found_file_path))
          => LET path == Unwrap(shared_data.not_found_file_path)
             IN  /\ handlers'[t].pc \in {"done", "panicked"}
                 /\ handlers'[t].pc = "done" =>
                       LET resp == Unwrap(handlers'[t].resp)
                       IN  /\ resp.status = 404
                           /\ IF Readable(fs, path)
                              THEN /\ resp.body = fs[path].bytes
                                   /\ HeaderValues(resp, <<"content-type">>)
                                         = { <<"text/html">> }
                              ELSE resp.body = "404 Not Found"]_vars

C5_Witness ==
    /\ Done("t1") /\ Resp("t1").status = 404 /\ Resp("t1").body = "<nf>"
    /\ Done("t2") /\ Resp("t2").status = 404 /\ Resp("t2").body = "404 Not Found"
    /\ IsSome(shared_data.not_found_file_path)

\* C6: once the configuration is built its header names are unique, and with the
\* opt-out flag the default header is not in it.
C6_UniqueHeaderNames ==
    main_pc = "serving"
    => /\ UniqueNames(shared_data.headers)
       /\ no_default_headers =>
             \A i \in 1..Len(shared_data.headers) :
                 shared_data.headers[i] # <<<<"access-control-allow-origin">>, <<"*">>>>

\* C7: no invocation of the handler panics, and every response has one of the
\* statuses 200, 403, 404, 500.
C7_HandlerTotal ==
    \A t \in Tasks :
        /\ handlers[t].pc # "panicked"
        /\ Done(t) => Resp(t).status \in {200, 403, 404, 500}

\* C8: a handled request has exactly one log line, which records the status of
\* the response returned, the method of the request received and its URI.
C8_LogRecordsRequest ==
    \A t \in Tasks :
        Done(t) => /\ Len(handlers[t].log) = 1
                   /\ handlers[t].log[1].status = Resp(t).status
                   /\ handlers[t].log[1].method = handlers[t].req.method
                   /\ handlers[t].log[1].uri = handlers[t].req.uri

\* The outcome of one request handled with nothing else running
Alone(req) ==
    LET h == Start(req, shared_data, fs)
    IN  IF h.pc = "read" THEN ReadFile(h, fs)
        ELSE IF h.pc = "not_found" THEN NotFound(h, shared_data, fs)
        ELSE h

\* C9: over a filesystem nobody changes, however the invocations interleave, each
\* one ends as the same request handled alone would, and no step of a handler
\* changes the shared configuration.
C9_ConcurrentAsAlone ==
    /\ [](\A t \in Tasks :
             handlers[t].pc \in {"done", "panicked"} => handlers[t] = Alone(handlers[t].req))
    /\ [][main_pc = "serving" => shared_data' = shared_data]_vars

C9_Witness ==
    /\ Done("t1") /\ Resp("t1").status = 200 /\ Resp("t1").body = "<a>"
    /\ handlers["t2"].pc = "read" /\ handlers["t2"].file_path = P_index

\* C10: when the candidate was a regular file at the check and its read then
\* fails, the response is 500 with the fixed body, after exactly one read and
\* no read of the fallback file; the error's text is not the body.
C10_ReadFailureIs500 ==
    [][\A t \in Tasks :
          (/\ handlers[t].pc = "read"
           /\ Moved(t)
           /\ ~Readable(fs, handlers[t].file_path))
          => /\ handlers'[t].pc \in {"done", "panicked"}
             /\ handlers'[t].fs_ops =
                   <<FsOp("is_file", handlers[t].file_path),
                     FsOp("read", handlers[t].file_path)>>
             /\ handlers'[t].pc = "done" =>
                   LET resp == Unwrap(handlers'[t].resp)
                   IN  /\ resp.status = 500
                       /\ resp.body = "Something Went Wrong :("
                       /\ resp.body # FsRead(fs, handlers[t].file_path).val]_vars

C10_Witness ==
    /\ Done("t1") /\ Resp("t1").status = 500
    /\ handlers["t1"].req = Request("GET", Uri(<<"/", "a">>, ""))
    /\ Lookup(fs, P_a).kind = "absent"
    /\ IsSome(shared_data.not_found_file_path)

====
